---- MODULE Spec2Model ----
(***************************************************************************)
(* A model of app.py of yt-download: the per-client sliding-window rate    *)
(* limiter (check_download_rate_limit), the update cooldown gate           *)
(* (update_ytdlp), and the in-memory progress registry (download_progress) *)
(* written by the download worker and its progress hook, swept by          *)
(* cleanup_old_progress and read by the progress route.                    *)
(*                                                                         *)
(* time.time() is a float; the model counts time in ticks of 1/Res second, *)
(* so that int(...) of a duration is a real truncation.                    *)
(***************************************************************************)
EXTENDS Integers, Sequences, FiniteSets, TLC

\* ------------------------------------------------------------------------
\* Program constants (app.py:68, 69, 73, 122)
DOWNLOAD_RATE_LIMIT == 10
DOWNLOAD_RATE_WINDOW == 600
UPDATE_COOLDOWN == 300
DEFAULT_MAX_AGE == 3600

\* ------------------------------------------------------------------------
\* Bounds of the model
Res == 2            \* clock ticks per second
MaxTicksRL == 1     \* clock advances in one behaviour of the limiter

Clients == {"A", "B"}   \* request.remote_addr values
Threads == {"t1", "t2"} \* request threads of the server that run at once

MaxJobs == 2        \* download ids handed out in one behaviour
JobIds == 1..MaxJobs

\* a download_id that is no key of download_progress
Absent == [status |-> "absent", percent |-> -1, speed |-> -1, eta |-> -1,
           filename |-> "", error |-> "", timestamp |-> -1]

W == DOWNLOAD_RATE_WINDOW * Res     \* the window, in ticks
CD == UPDATE_COOLDOWN * Res         \* the cooldown, in ticks
H == DEFAULT_MAX_AGE * Res          \* the default retention, in ticks

\* time.time() when the process starts: seconds since 1970, far more than
\* any interval the program compares against
Boot == 10 * H

VARIABLES
    now,                \* the wall clock, time.time(), in ticks
    nticks,             \* how many times the clock has advanced
    download_requests,  \* app.py:70, ip -> list of admit instants
    rl_ret,             \* what the last check_download_rate_limit call returned
    solo,               \* per client: its list had it been the only caller
    solo_ret,           \* per client: its last return had it been the only caller
    burst,              \* per client: instant of its last denial with a full same-instant list
    \* request threads inside check_download_rate_limit
    t_pc,               \* per thread: the line it is about to run
    t_now,              \* per thread: its local now
    t_clean,            \* per thread: the list its comprehension built
    t_rem,              \* per thread: its local remaining
    granted,            \* instants of the calls that returned allowed, in order
    ncalls,             \* calls begun
    \* the update cooldown
    last_update_time,   \* app.py:74
    cd_ret,             \* the last response of update_ytdlp
    attempts,           \* the update_ytdlp calls so far: instant and whether the gate was passed
    \* the progress registry and the download workers
    download_progress,  \* app.py:120, download_id -> entry
    w_pc,               \* per download_id: where its download_video thread is
    w_end,              \* per download_id: instant of the worker's complete/error write
    next_id,            \* the next download_id uuid4 yields
    dl_ret,             \* the last response of download()
    q_ret,              \* the last response of the progress route
    t_id,               \* per request thread: its download_id
    t_todo              \* per request thread: to_delete of cleanup_old_progress

clockVars == <<now, nticks>>
rlVars == <<download_requests, rl_ret, solo, solo_ret, burst>>
rcVars == <<t_pc, t_now, t_clean, t_rem, granted, ncalls>>
cdVars == <<last_update_time, cd_ret, attempts>>
regVars == <<download_progress, w_pc, w_end, next_id, dl_ret, q_ret>>
jobVars == <<download_progress, w_pc, w_end, next_id, dl_ret, q_ret, t_id, t_todo>>
vars == <<now, nticks, download_requests, rl_ret, solo, solo_ret, burst,
          t_pc, t_now, t_clean, t_rem, granted, ncalls,
          last_update_time, cd_ret, attempts,
          download_progress, w_pc, w_end, next_id, dl_ret, q_ret, t_id, t_todo>>

\* ------------------------------------------------------------------------
\* Helpers

\* int(x) for x = num/den seconds: truncation toward zero
IntTrunc(num, den) ==
    IF num >= 0 THEN num \div den ELSE -((-num) \div den)

RECURSIVE SeqMin(_)
\* min(list) of a non-empty list
SeqMin(s) ==
    IF Len(s) = 1 THEN s[1]
    ELSE LET m == SeqMin(Tail(s)) IN IF s[1] <= m THEN s[1] ELSE m

\* ------------------------------------------------------------------------
\* check_download_rate_limit, app.py:76-95

FreshInclusive(t, n) == n - t <= W
\* the filter of line 83: now - t < DOWNLOAD_RATE_WINDOW
Fresh(t, n) == n - t < W

\* line 83, the list comprehension
CleanOld(lst, n) == SelectSeq(lst, LAMBDA t: Fresh(t, n))

StoreListEveryKey(reqs, ip, lst) == [c \in DOMAIN reqs |-> lst]
\* download_requests[ip] = <list>
StoreList(reqs, ip, lst) == [reqs EXCEPT ![ip] = lst]

\* lines 89-90: int(DOWNLOAD_RATE_WINDOW - (now - min(list)))
ResetSeconds(lst, n) == IntTrunc(W - (n - SeqMin(lst)), Res)

OverLimitStrict(remaining) == remaining < 0
\* line 87: if remaining <= 0
OverLimit(remaining) == remaining <= 0

\* The whole call at instant n: the new map and the returned triple.
RateLimitCall(reqs, ip, n) ==
    LET cleaned   == CleanOld(reqs[ip], n)
        reqs1     == StoreList(reqs, ip, cleaned)
        remaining == DOWNLOAD_RATE_LIMIT - Len(reqs1[ip])
    IN  IF OverLimit(remaining)
        THEN [reqs |-> reqs1,
              ret  |-> [ip |-> ip, at |-> n, allowed |-> FALSE, remaining |-> 0,
                        reset_seconds |-> ResetSeconds(reqs1[ip], n)]]
        ELSE [reqs |-> StoreList(reqs1, ip, Append(reqs1[ip], n)),
              ret  |-> [ip |-> ip, at |-> n, allowed |-> TRUE,
                        remaining |-> remaining - 1, reset_seconds |-> 0]]

NoRet == [ip |-> "none", at |-> 0, allowed |-> FALSE, remaining |-> 0, reset_seconds |-> 0]

AllAt(lst, t) == \A i \in 1..Len(lst) : lst[i] = t

\* ------------------------------------------------------------------------
\* The limiter called by one request at a time

\* the module-level state after import, app.py:70
ClockInit == now = Boot /\ nticks = 0

LimiterInit ==
    /\ download_requests = [c \in Clients |-> <<>>]
    /\ rl_ret = NoRet
    /\ solo = [c \in Clients |-> <<>>]
    /\ solo_ret = [c \in Clients |-> NoRet]
    /\ burst = [c \in Clients |-> -1]

ThreadsInit ==
    /\ t_pc = [t \in Threads |-> "idle"]
    /\ t_now = [t \in Threads |-> 0]
    /\ t_clean = [t \in Threads |-> <<>>]
    /\ t_rem = [t \in Threads |-> 0]
    /\ granted = <<>>
    /\ ncalls = 0

\* line 74: last_update_time = 0
CooldownInit ==
    /\ last_update_time = 0
    /\ cd_ret = [code |-> 0, remaining |-> 0]
    /\ attempts = <<>>

\* line 120: download_progress = {}; no worker thread exists yet
RegistryInit ==
    /\ download_progress = [j \in JobIds |-> Absent]
    /\ w_pc = [j \in JobIds |-> "unborn"]
    /\ w_end = [j \in JobIds |-> -1]
    /\ next_id = 1
    /\ dl_ret = [code |-> 0, download_id |-> 0, remaining |-> 0]
    /\ q_ret = [code |-> 0, id |-> 0, body |-> Absent]
    /\ t_id = [t \in Threads |-> 0]
    /\ t_todo = [t \in Threads |-> <<>>]

AllInit ==
    ClockInit /\ LimiterInit /\ ThreadsInit /\ CooldownInit /\ RegistryInit

RLInit == AllInit

RLJumps == {1, W - 1, W}

\* time passes: the next time.time() reads d ticks more
Advance(d) ==
    /\ now' = now + d
    /\ nticks' = nticks + 1

Tick(d) ==
    /\ nticks < MaxTicksRL
    /\ Advance(d)
    /\ UNCHANGED <<rlVars, rcVars, cdVars, jobVars>>

\* the effect of one call check_download_rate_limit(ip) on the limiter
LimiterStep(ip) ==
    LET r == RateLimitCall(download_requests, ip, now)
        s == RateLimitCall(solo, ip, now)
    IN  /\ download_requests' = r.reqs
        /\ rl_ret' = r.ret
        /\ solo' = [solo EXCEPT ![ip] = s.reqs[ip]]
        /\ solo_ret' = [solo_ret EXCEPT ![ip] = s.ret]
        /\ burst' = [burst EXCEPT ![ip] =
                        IF /\ ~r.ret.allowed
                           /\ Len(r.reqs[ip]) = DOWNLOAD_RATE_LIMIT
                           /\ AllAt(r.reqs[ip], now)
                        THEN now ELSE @]

\* one call check_download_rate_limit(ip)
CheckDownloadRateLimit(ip) ==
    /\ LimiterStep(ip)
    /\ UNCHANGED <<clockVars, rcVars, cdVars, jobVars>>

RLNext ==
    \/ \E d \in RLJumps : Tick(d)
    \/ \E ip \in Clients : CheckDownloadRateLimit(ip)

SpecRL == RLInit /\ [][RLNext]_vars

\* A step of SpecRL that is a call by client c (the clock stands still in it).
CallStepBy(c) == now' = now /\ rl_ret'.ip = c

\* C1: with DOWNLOAD_RATE_LIMIT admits of one client recorded at the present
\* instant, its next call at that instant is denied with remaining 0 and a
\* retry-after above 0; with DOWNLOAD_RATE_LIMIT admits recorded at one
\* instant at least DOWNLOAD_RATE_WINDOW ago, its next call is allowed.
C1_BurstDeniedThenWindowReopens ==
    [][\A c \in Clients :
        LET lst == download_requests[c] IN
        (CallStepBy(c) /\ Len(lst) = DOWNLOAD_RATE_LIMIT /\ AllAt(lst, lst[1])) =>
            /\ (lst[1] = now =>
                    /\ ~rl_ret'.allowed
                    /\ rl_ret'.remaining = 0
                    /\ rl_ret'.reset_seconds > 0)
            /\ (now - lst[1] >= W => rl_ret'.allowed)
      ]_vars

\* A client denied on a full same-instant list is admitted by its first call
\* made a window later.
C1_Witness ==
    \E c \in Clients :
        /\ burst[c] >= 0
        /\ rl_ret.ip = c /\ rl_ret.allowed
        /\ rl_ret.at - burst[c] >= W
        /\ download_requests[c] = <<rl_ret.at>>

\* C2: every client's list, and the return of every call, is what it would
\* be had no other client ever called.
C2_ClientsIndependent ==
    \A c \in Clients :
        /\ download_requests[c] = solo[c]
        /\ (rl_ret.ip = c => rl_ret = solo_ret[c])

\* B is admitted right after A was denied at the same instant.
C2_Witness ==
    /\ ~solo_ret["A"].allowed /\ solo_ret["A"].ip = "A" /\ solo_ret["A"].at = now
    /\ rl_ret.ip = "B" /\ rl_ret.allowed /\ rl_ret.at = now

NonDecreasing(lst) == \A i \in 1..Len(lst) - 1 : lst[i] <= lst[i + 1]

\* C3: every client's list holds at most DOWNLOAD_RATE_LIMIT instants, in
\* non-decreasing order.
C3_ListBoundedAndOrdered ==
    \A c \in Clients :
        /\ Len(download_requests[c]) <= DOWNLOAD_RATE_LIMIT
        /\ NonDecreasing(download_requests[c])

\* An allowed admit has just filled a list that spans two instants.
C3_Witness ==
    \E c \in Clients :
        LET lst == download_requests[c] IN
        /\ rl_ret.ip = c /\ rl_ret.allowed
        /\ Len(lst) = DOWNLOAD_RATE_LIMIT
        /\ lst[1] < lst[DOWNLOAD_RATE_LIMIT]

\* ------------------------------------------------------------------------
\* check_download_rate_limit run by several request threads at once for one
\* client (waitress serve(threads=4), app.py:540; no lock in app.py). A
\* thread may be preempted between any two of its reads and writes of
\* download_requests[ip].

ConcClient == "A"

MaxTicksRC == 1     \* clock advances in one behaviour
MaxCallsRC == 12    \* calls begun in one behaviour

RCJumps == {W}

RCInit == AllInit

RCTick(d) ==
    /\ nticks < MaxTicksRC
    /\ Advance(d)
    /\ UNCHANGED <<rlVars, rcVars, cdVars, jobVars>>

\* the call ends and its locals with it
Return(t) ==
    /\ t_pc' = [t_pc EXCEPT ![t] = "idle"]
    /\ t_now' = [t_now EXCEPT ![t] = 0]
    /\ t_clean' = [t_clean EXCEPT ![t] = <<>>]
    /\ t_rem' = [t_rem EXCEPT ![t] = 0]

\* line 81: now = time.time()
RCBegin(t) ==
    /\ t_pc[t] = "idle"
    /\ ncalls < MaxCallsRC
    /\ ncalls' = ncalls + 1
    /\ t_now' = [t_now EXCEPT ![t] = now]
    /\ t_pc' = [t_pc EXCEPT ![t] = "clean"]
    /\ UNCHANGED <<clockVars, rlVars, cdVars, jobVars, t_clean, t_rem, granted>>

\* line 83, right-hand side: the comprehension over the present list
RCClean(t) ==
    /\ t_pc[t] = "clean"
    /\ t_clean' = [t_clean EXCEPT ![t] = CleanOld(download_requests[ConcClient], t_now[t])]
    /\ t_pc' = [t_pc EXCEPT ![t] = "store"]
    /\ UNCHANGED <<clockVars, rlVars, cdVars, jobVars, t_now, t_rem, granted, ncalls>>

\* line 83, the assignment download_requests[ip] = <the new list>
RCStore(t) ==
    /\ t_pc[t] = "store"
    /\ download_requests' = StoreList(download_requests, ConcClient, t_clean[t])
    /\ t_pc' = [t_pc EXCEPT ![t] = "count"]
    /\ UNCHANGED <<clockVars, rl_ret, solo, solo_ret, burst, cdVars, jobVars,
                   t_now, t_clean, t_rem, granted, ncalls>>

\* lines 85-87: remaining, and the branch on it
RCCount(t) ==
    LET remaining == DOWNLOAD_RATE_LIMIT - Len(download_requests[ConcClient]) IN
    /\ t_pc[t] = "count"
    /\ t_rem' = [t_rem EXCEPT ![t] = remaining]
    /\ t_pc' = [t_pc EXCEPT ![t] = IF OverLimit(remaining) THEN "deny" ELSE "append"]
    /\ UNCHANGED <<clockVars, rlVars, cdVars, jobVars, t_now, t_clean, granted, ncalls>>

\* lines 89-91: min() of the present list, return False; min() raises
\* ValueError when another thread has emptied the list meanwhile
RCDeny(t) ==
    /\ t_pc[t] = "deny"
    /\ IF download_requests[ConcClient] = <<>>
       THEN t_pc' = [t_pc EXCEPT ![t] = "raised"] /\ UNCHANGED <<t_now, t_clean, t_rem>>
       ELSE Return(t)
    /\ UNCHANGED <<clockVars, rlVars, cdVars, jobVars, granted, ncalls>>

\* the ValueError leaves download() and the request ends
RCRaised(t) ==
    /\ t_pc[t] = "raised"
    /\ Return(t)
    /\ UNCHANGED <<clockVars, rlVars, cdVars, jobVars, granted, ncalls>>

\* lines 94-95: append now to the present list, return True
RCAppend(t) ==
    /\ t_pc[t] = "append"
    /\ download_requests' = StoreList(download_requests, ConcClient,
                                      Append(download_requests[ConcClient], t_now[t]))
    /\ granted' = Append(granted, t_now[t])
    /\ Return(t)
    /\ UNCHANGED <<clockVars, rl_ret, solo, solo_ret, burst, cdVars, jobVars, ncalls>>

RCNext ==
    \/ \E d \in RCJumps : RCTick(d)
    \/ \E t \in Threads : RCBegin(t)
    \/ \E t \in Threads : RCClean(t)
    \/ \E t \in Threads : RCStore(t)
    \/ \E t \in Threads : RCCount(t)
    \/ \E t \in Threads : RCDeny(t)
    \/ \E t \in Threads : RCRaised(t)
    \/ \E t \in Threads : RCAppend(t)

SpecRC == RCInit /\ [][RCNext]_vars

\* how many entries of lst equal x
Occurrences(lst, x) == Cardinality({i \in 1..Len(lst) : lst[i] = x})

\* how many entries of lst lie in the window [s, s + W)
InWindow(lst, s) == Cardinality({i \in 1..Len(lst) : s <= lst[i] /\ lst[i] - s < W})

\* C4 (as claimed): concurrent calls for one client behave as if serialized:
\* no window of length DOWNLOAD_RATE_WINDOW holds more than
\* DOWNLOAD_RATE_LIMIT allowed calls, and the instant of every allowed call
\* stays in the client's list until it is DOWNLOAD_RATE_WINDOW old.
C4_ConcurrentAdmitsSerialized ==
    /\ \A i \in 1..Len(granted) :
            InWindow(granted, granted[i]) <= DOWNLOAD_RATE_LIMIT
    /\ \A i \in 1..Len(granted) :
            now - granted[i] < W =>
                Occurrences(download_requests[ConcClient], granted[i])
                    >= Occurrences(granted, granted[i])

\* the first half of C4 alone: more than DOWNLOAD_RATE_LIMIT allowed calls
\* in one window
C4_WindowNeverOverfull ==
    \A i \in 1..Len(granted) :
        InWindow(granted, granted[i]) <= DOWNLOAD_RATE_LIMIT

\* ------------------------------------------------------------------------
\* update_ytdlp, app.py:441-499, one request at a time

MaxTicksCD == 2     \* clock advances in one behaviour
MaxAttempts == 3    \* update_ytdlp calls in one behaviour

CDJumps == {1, CD - 1, CD}

\* how subprocess.run of pip ends: exit 0, exit code not 0, TimeoutExpired,
\* another exception
PipOutcomes == {"ok", "nonzero", "timeout", "exception"}

CooldownActiveInclusive(n, last) == n - last <= CD
\* line 449: now - last_update_time < UPDATE_COOLDOWN
CooldownActive(n, last) == n - last < CD

\* line 450: int(UPDATE_COOLDOWN - (now - last_update_time))
CooldownRemaining(n, last) == IntTrunc(CD - (n - last), Res)

\* lines 468-499: the response once the gate is passed
PipResponse(outcome) ==
    IF outcome = "ok" THEN [code |-> 200, remaining |-> 0]
    ELSE [code |-> 500, remaining |-> 0]

CDInit == AllInit

CDTick(d) ==
    /\ nticks < MaxTicksCD
    /\ Advance(d)
    /\ UNCHANGED <<rlVars, rcVars, cdVars, jobVars>>

\* one whole request POST /update-ytdlp
UpdateYtdlp(outcome) ==
    /\ Len(attempts) < MaxAttempts
    /\ IF CooldownActive(now, last_update_time)
       THEN /\ cd_ret' = [code |-> 429,
                          remaining |-> CooldownRemaining(now, last_update_time)]
            /\ attempts' = Append(attempts, [at |-> now, passed |-> FALSE])
            /\ UNCHANGED last_update_time
       ELSE /\ last_update_time' = now
            /\ cd_ret' = PipResponse(outcome)
            /\ attempts' = Append(attempts, [at |-> now, passed |-> TRUE])
    /\ UNCHANGED <<clockVars, rlVars, jobVars, rcVars>>

CDNext ==
    \/ \E d \in CDJumps : CDTick(d)
    \/ \E o \in PipOutcomes : UpdateYtdlp(o)

SpecCD == CDInit /\ [][CDNext]_vars

\* C5: the first update_ytdlp call passes the gate; a second call less than
\* UPDATE_COOLDOWN after the first is rejected; after such a second call, a
\* third call at least UPDATE_COOLDOWN after the first passes the gate.
C5_CooldownGateSequence ==
    /\ (Len(attempts) >= 1 => attempts[1].passed)
    /\ (Len(attempts) >= 2 /\ attempts[2].at - attempts[1].at < CD =>
            ~attempts[2].passed)
    /\ (Len(attempts) >= 3 /\ attempts[2].at - attempts[1].at < CD
                           /\ attempts[3].at - attempts[1].at >= CD =>
            attempts[3].passed)

\* pass, reject inside the cooldown, pass exactly UPDATE_COOLDOWN after the first
C5_Witness ==
    /\ Len(attempts) = 3
    /\ attempts[1].passed /\ ~attempts[2].passed /\ attempts[3].passed
    /\ attempts[2].at - attempts[1].at < CD
    /\ attempts[3].at - attempts[1].at = CD
    /\ last_update_time = attempts[3].at

\* ------------------------------------------------------------------------
\* update_ytdlp run by several request threads at once (no lock in app.py)

MaxTicksCC == 1     \* clock advances in one behaviour
MaxCallsCC == 4     \* update_ytdlp calls begun in one behaviour

CCJumps == {1, CD}

CCInit == AllInit

CCTick(d) ==
    /\ nticks < MaxTicksCC
    /\ Advance(d)
    /\ UNCHANGED <<rlVars, rcVars, cdVars, jobVars>>

\* line 448: now = time.time()
CCBegin(t) ==
    /\ t_pc[t] = "idle"
    /\ ncalls < MaxCallsCC
    /\ ncalls' = ncalls + 1
    /\ t_now' = [t_now EXCEPT ![t] = now]
    /\ t_pc' = [t_pc EXCEPT ![t] = "gate"]
    /\ UNCHANGED <<clockVars, rlVars, cdVars, jobVars, t_clean, t_rem, granted>>

\* lines 449-454: the read of last_update_time and the 429 answer
CCGate(t) ==
    /\ t_pc[t] = "gate"
    /\ IF CooldownActive(t_now[t], last_update_time)
       THEN /\ cd_ret' = [code |-> 429,
                          remaining |-> CooldownRemaining(t_now[t], last_update_time)]
            /\ Return(t)
       ELSE /\ t_pc' = [t_pc EXCEPT ![t] = "stamp"]
            /\ UNCHANGED <<cd_ret, t_now, t_clean, t_rem>>
    /\ UNCHANGED <<clockVars, rlVars, jobVars, last_update_time, attempts, granted, ncalls>>

StampNothing(n, last) == last
\* line 458: the value last_update_time = now assigns
Stamp(n, last) == n

\* lines 457-458: last_update_time = now, then subprocess.run starts
CCStamp(t) ==
    /\ t_pc[t] = "stamp"
    /\ last_update_time' = Stamp(t_now[t], last_update_time)
    /\ t_pc' = [t_pc EXCEPT ![t] = "pip"]
    /\ UNCHANGED <<clockVars, rlVars, jobVars, cd_ret, attempts,
                   t_now, t_clean, t_rem, granted, ncalls>>

\* lines 461-499: subprocess.run ends and the request is answered
CCPipEnds(t, outcome) ==
    /\ t_pc[t] = "pip"
    /\ cd_ret' = PipResponse(outcome)
    /\ Return(t)
    /\ UNCHANGED <<clockVars, rlVars, jobVars, last_update_time, attempts, granted, ncalls>>

CCNext ==
    \/ \E d \in CCJumps : CCTick(d)
    \/ \E t \in Threads : CCBegin(t)
    \/ \E t \in Threads : CCGate(t)
    \/ \E t \in Threads : CCStamp(t)
    \/ \E t \in Threads : \E o \in PipOutcomes : CCPipEnds(t, o)

SpecCC == CCInit /\ [][CCNext]_vars

PassedGate(t) == t_pc[t] \in {"stamp", "pip"}

\* C6 (as claimed): of two threads that attempt the update at instants less
\* than UPDATE_COOLDOWN apart, at most one is past the gate.
C6_AtMostOnePassesGate ==
    \A t1, t2 \in Threads :
        (t1 # t2 /\ PassedGate(t1) /\ PassedGate(t2)) =>
            \/ t_now[t1] - t_now[t2] >= CD
            \/ t_now[t2] - t_now[t1] >= CD

\* ------------------------------------------------------------------------
\* The progress registry: download(), cleanup_old_progress, progress_hook,
\* download_video and the progress route, app.py:122-130, 188-293, 329-388

\* the byte counts a progress event reports
ByteCounts == 0..2

\* what yt-dlp hands to a progress hook: d['status'] and the byte counts;
\* 0 stands for a count that is None or a key that is missing
HookStatuses == {"downloading", "finished", "error"}
Events ==
    [status : {"downloading"}, downloaded_bytes : ByteCounts,
     total_bytes : {0, 2}, total_bytes_estimate : {0, 1},
     speed : {1}, eta : {1}]
    \cup
    [status : HookStatuses \ {"downloading"}, downloaded_bytes : {2},
     total_bytes : {2}, total_bytes_estimate : {0},
     speed : {0}, eta : {0}]

\* request bodies: the "url" field
Urls == {"", " ", "u"}

\* str(e) of the exceptions the tool raises
RawErrors == {"ERROR: unsupported URL", "ERROR: unable to open /srv/app/downloads/x.part"}

\* the output names os.path.basename yields
BaseNames == {"id_title.mp4"}

\* url.strip()
StripNothing(url) == url
Strip(url) == IF url = " " THEN "" ELSE url

\* round(x, 1) for x = num/den percent, in tenths of a percent: to the
\* nearest tenth, a tie to the even one
RoundTenths(num, den) ==
    LET q == (10 * num) \div den
        r == (10 * num) % den
    IN  IF 2 * r < den THEN q
        ELSE IF 2 * r > den THEN q + 1
        ELSE IF q % 2 = 0 THEN q ELSE q + 1

\* line 191: d.get('total_bytes') or d.get('total_bytes_estimate', 0)
EventTotal(d) == IF d.total_bytes # 0 THEN d.total_bytes ELSE d.total_bytes_estimate

\* lines 194-201: round((downloaded / total) * 100, 1), 0 without a total;
\* in tenths of a percent
Percent(d) ==
    IF EventTotal(d) > 0
    THEN RoundTenths(100 * d.downloaded_bytes, EventTotal(d)) ELSE 0

StartingEntryNoPercent(n) ==
    [Absent EXCEPT !.status = "starting", !.timestamp = n]
\* lines 361-365
StartingEntry(n) ==
    [Absent EXCEPT !.status = "starting", !.percent = 0, !.timestamp = n]

\* lines 199-205
DownloadingEntry(d, n) ==
    [Absent EXCEPT !.status = "downloading", !.percent = Percent(d),
                   !.speed = d.speed, !.eta = d.eta, !.timestamp = n]

\* lines 207-211
ProcessingEntry(n) ==
    [Absent EXCEPT !.status = "processing", !.percent = 1000, !.timestamp = n]

CompleteEntryKeepingSpeed(basename, n) ==
    [Absent EXCEPT !.status = "complete", !.percent = 1000, !.speed = 1, !.eta = 1,
                   !.filename = basename, !.timestamp = n]
\* lines 281-286
CompleteEntry(basename, n) ==
    [Absent EXCEPT !.status = "complete", !.percent = 1000,
                   !.filename = basename, !.timestamp = n]

\* lines 289-293
ErrorEntry(text, n) ==
    [Absent EXCEPT !.status = "error", !.error = text, !.timestamp = n]

Present(reg, j) == reg[j].status # "absent"
Terminal(e) == e.status \in {"complete", "error"}

\* lines 386-388: the body the progress route answers with, or 404
ProgressResponse(reg, j) ==
    IF Present(reg, j) THEN [code |-> 200, body |-> reg[j]]
    ELSE [code |-> 404, body |-> Absent]

ExpiredInclusive(e, n, max_age) == e.timestamp <= n - max_age
\* line 127: v.get('timestamp', 0) < now - max_age_seconds
Expired(e, n, max_age) == e.timestamp < n - max_age

RECURSIVE KeysFrom(_, _, _, _)
\* lines 125-128: the keys to delete, in key order, from key j on
KeysFrom(reg, j, n, max_age) ==
    IF j > MaxJobs THEN <<>>
    ELSE IF Present(reg, j) /\ Expired(reg[j], n, max_age)
         THEN <<j>> \o KeysFrom(reg, j + 1, n, max_age)
         ELSE KeysFrom(reg, j + 1, n, max_age)

ToDelete(reg, n, max_age) == KeysFrom(reg, 1, n, max_age)

RECURSIVE DeleteAll(_, _)
\* lines 129-130: del download_progress[k] for each k
DeleteAll(reg, todo) ==
    IF todo = <<>> THEN reg
    ELSE DeleteAll([reg EXCEPT ![Head(todo)] = Absent], Tail(todo))

\* cleanup_old_progress(max_age) at instant n, run without interruption
CleanupOldProgress(reg, n, max_age) == DeleteAll(reg, ToDelete(reg, n, max_age))

\* the download_video thread of job j has been started and has not ended:
\* "started" before its first write to the registry, "running" after it
WorkerAlive(j) == w_pc[j] \in {"started", "running"}

WorkerStateAfterWriteRunning == "running"
\* download_video returns after its complete or error write: the thread ends
WorkerStateAfterWrite == "done"

\* ------------------------------------------------------------------------
\* Requests handled one at a time; the workers run beside them

MaxTicksJob == 1    \* clock advances in one behaviour
MaxSubmits == 2     \* POST /download requests in one behaviour

JobJumps == {H, H + 1}

\* the clients that submit downloads
JobClients == {"A"}

JobInit == AllInit

JobTick(d) ==
    /\ nticks < MaxTicksJob
    /\ Advance(d)
    /\ UNCHANGED <<rlVars, rcVars, cdVars, jobVars>>

\* one whole request POST /download from ip, lines 329-379
DownloadRequest(ip, url) ==
    LET r == RateLimitCall(download_requests, ip, now) IN
    /\ ncalls' = ncalls + 1
    /\ LimiterStep(ip)
    /\ IF ~r.ret.allowed
       THEN /\ dl_ret' = [code |-> 429, download_id |-> 0, remaining |-> 0]
            /\ UNCHANGED <<download_progress, w_pc, next_id>>
       ELSE IF Strip(url) = ""
       THEN /\ dl_ret' = [code |-> 400, download_id |-> 0, remaining |-> 0]
            /\ UNCHANGED <<download_progress, w_pc, next_id>>
       ELSE /\ next_id <= MaxJobs
            /\ download_progress' =
                   [CleanupOldProgress(download_progress, now, H)
                        EXCEPT ![next_id] = StartingEntry(now)]
            /\ w_pc' = [w_pc EXCEPT ![next_id] = "started"]
            /\ next_id' = next_id + 1
            /\ dl_ret' = [code |-> 200, download_id |-> next_id,
                          remaining |-> r.ret.remaining]
    /\ UNCHANGED <<clockVars, cdVars, t_pc, t_now, t_clean, t_rem, granted,
                   w_end, q_ret, t_id, t_todo>>

Download(ip, url) == ncalls < MaxSubmits /\ DownloadRequest(ip, url)

\* yt-dlp calls the hook of job j with event d, inside extract_info (line 269)
ProgressHook(j, d) ==
    /\ WorkerAlive(j)
    /\ download_progress' =
           IF d.status = "downloading"
           THEN [download_progress EXCEPT ![j] = DownloadingEntry(d, now)]
           ELSE IF d.status = "finished"
           THEN [download_progress EXCEPT ![j] = ProcessingEntry(now)]
           ELSE download_progress
    /\ w_pc' = IF d.status \in {"downloading", "finished"}
               THEN [w_pc EXCEPT ![j] = "running"] ELSE w_pc
    /\ UNCHANGED <<clockVars, rlVars, rcVars, cdVars,
                   w_end, next_id, dl_ret, q_ret, t_id, t_todo>>

\* extract_info and prepare_filename return: lines 270-286
WorkerComplete(j, basename) ==
    /\ WorkerAlive(j)
    /\ download_progress' = [download_progress EXCEPT ![j] = CompleteEntry(basename, now)]
    /\ w_pc' = [w_pc EXCEPT ![j] = WorkerStateAfterWrite]
    /\ w_end' = [w_end EXCEPT ![j] = now]
    /\ UNCHANGED <<clockVars, rlVars, rcVars, cdVars, next_id, dl_ret, q_ret,
                   t_id, t_todo>>

\* the tool raises at any stage: lines 288-293
WorkerError(j, text) ==
    /\ WorkerAlive(j)
    /\ download_progress' = [download_progress EXCEPT ![j] = ErrorEntry(text, now)]
    /\ w_pc' = [w_pc EXCEPT ![j] = WorkerStateAfterWrite]
    /\ w_end' = [w_end EXCEPT ![j] = now]
    /\ UNCHANGED <<clockVars, rlVars, rcVars, cdVars, next_id, dl_ret, q_ret,
                   t_id, t_todo>>

JobNext ==
    \/ \E d \in JobJumps : JobTick(d)
    \/ \E ip \in JobClients : \E url \in Urls : Download(ip, url)
    \/ \E j \in JobIds : \E d \in Events : ProgressHook(j, d)
    \/ \E j \in JobIds : \E b \in BaseNames : WorkerComplete(j, b)
    \/ \E j \in JobIds : \E x \in RawErrors : WorkerError(j, x)

SpecJob == JobInit /\ [][JobNext]_vars

\* C7: once a job's entry says complete or error, no later step changes the
\* status of that entry.
C7_TerminalStatusIsFinal ==
    [][\A j \in JobIds :
        (Present(download_progress, j) /\ Terminal(download_progress[j])
            /\ Present(download_progress', j)) =>
            download_progress'[j].status = download_progress[j].status
      ]_vars

\* A job is still complete after time has passed and a later job has
\* reported progress.
C7_Witness ==
    \E j, k \in JobIds :
        /\ download_progress[j].status = "complete"
        /\ w_pc[j] = "done" /\ w_end[j] < now
        /\ download_progress[k].status = "downloading"
        /\ download_progress[k].timestamp > w_end[j]

\* C8 (as claimed): from one state to the next, while a job's status stays
\* downloading its percent does not go down.
C8_PercentNonDecreasing ==
    [][\A j \in JobIds :
        (ProgressResponse(download_progress, j).body.status = "downloading"
            /\ ProgressResponse(download_progress', j).body.status = "downloading") =>
            ProgressResponse(download_progress', j).body.percent
                >= ProgressResponse(download_progress, j).body.percent
      ]_vars

\* C9: the sweep an accepted submit runs at instant now removes exactly the
\* entries with timestamp < now - max_age and leaves every other entry as
\* it was (the submit then adds the entry of its own fresh id).
C9_SweepRemovesExactlyTheOld ==
    [][next_id' = next_id + 1 =>
        \A j \in JobIds \ {next_id} :
            download_progress'[j] =
                IF Present(download_progress, j)
                   /\ download_progress[j].timestamp < now - H
                THEN Absent ELSE download_progress[j]
      ]_vars

\* The submit that has just created job 2 removed the entry of job 1.
C9_Witness ==
    /\ dl_ret.code = 200 /\ dl_ret.download_id = 2
    /\ download_progress[2] = StartingEntry(now)
    /\ w_pc[1] # "unborn"
    /\ ~Present(download_progress, 1)

\* ------------------------------------------------------------------------
\* download() run by request threads beside the workers: the sweep of
\* cleanup_old_progress, the insert of the new entry and the start of the
\* worker are separate steps, and a worker's write may fall between any two
\* of them (no lock in app.py).

MaxTicksJC == 1     \* clock advances in one behaviour
MaxSubmitsJC == 2   \* POST /download requests in one behaviour

JCInit == AllInit

JCTick(d) ==
    /\ nticks < MaxTicksJC
    /\ Advance(d)
    /\ UNCHANGED <<rlVars, rcVars, cdVars, jobVars>>

\* the request ends and its locals with it
JReturn(t) ==
    /\ Return(t)
    /\ t_id' = [t_id EXCEPT ![t] = 0]
    /\ t_todo' = [t_todo EXCEPT ![t] = <<>>]

\* lines 332-355: the rate limit, the url check, the fresh download_id
JCBegin(t, ip, url) ==
    LET r == RateLimitCall(download_requests, ip, now) IN
    /\ t_pc[t] = "idle"
    /\ ncalls < MaxSubmitsJC
    /\ ncalls' = ncalls + 1
    /\ LimiterStep(ip)
    /\ IF ~r.ret.allowed
       THEN /\ dl_ret' = [code |-> 429, download_id |-> 0, remaining |-> 0]
            /\ UNCHANGED <<next_id, t_pc, t_id, t_rem>>
       ELSE IF Strip(url) = ""
       THEN /\ dl_ret' = [code |-> 400, download_id |-> 0, remaining |-> 0]
            /\ UNCHANGED <<next_id, t_pc, t_id, t_rem>>
       ELSE /\ next_id <= MaxJobs
            /\ next_id' = next_id + 1
            /\ t_id' = [t_id EXCEPT ![t] = next_id]
            /\ t_rem' = [t_rem EXCEPT ![t] = r.ret.remaining]
            /\ t_pc' = [t_pc EXCEPT ![t] = "scan"]
            /\ UNCHANGED dl_ret
    /\ UNCHANGED <<clockVars, cdVars, t_now, t_clean, granted,
                   download_progress, w_pc, w_end, q_ret, t_todo>>

\* lines 124-128: now = time.time() and the to_delete comprehension
JCScan(t) ==
    /\ t_pc[t] = "scan"
    /\ t_now' = [t_now EXCEPT ![t] = now]
    /\ t_todo' = [t_todo EXCEPT ![t] = ToDelete(download_progress, now, H)]
    /\ t_pc' = [t_pc EXCEPT ![t] = "del"]
    /\ UNCHANGED <<clockVars, rlVars, cdVars, regVars, t_clean, t_rem, granted,
                   ncalls, t_id>>

\* lines 129-130: one del download_progress[k]; when another sweep has
\* removed k already, del raises KeyError and the request is answered 500
JCDel(t) ==
    /\ t_pc[t] = "del"
    /\ t_todo[t] # <<>>
    /\ IF Present(download_progress, Head(t_todo[t]))
       THEN /\ download_progress' = [download_progress EXCEPT ![Head(t_todo[t])] = Absent]
            /\ t_todo' = [t_todo EXCEPT ![t] = Tail(@)]
            /\ UNCHANGED <<dl_ret, t_pc, t_now, t_clean, t_rem, t_id>>
       ELSE /\ dl_ret' = [code |-> 500, download_id |-> 0, remaining |-> 0]
            /\ JReturn(t)
            /\ UNCHANGED download_progress
    /\ UNCHANGED <<clockVars, rlVars, cdVars, w_pc, w_end, next_id, q_ret,
                   granted, ncalls>>

\* lines 361-365: download_progress[download_id] = {'status': 'starting', ...}
JCCreate(t) ==
    /\ t_pc[t] = "del"
    /\ t_todo[t] = <<>>
    /\ download_progress' = [download_progress EXCEPT ![t_id[t]] = StartingEntry(now)]
    /\ t_pc' = [t_pc EXCEPT ![t] = "spawn"]
    /\ UNCHANGED <<clockVars, rlVars, cdVars, w_pc, w_end, next_id, dl_ret, q_ret,
                   t_now, t_clean, t_rem, granted, ncalls, t_id, t_todo>>

\* lines 368-379: thread.start() and the answer
JCSpawn(t) ==
    /\ t_pc[t] = "spawn"
    /\ w_pc' = [w_pc EXCEPT ![t_id[t]] = "started"]
    /\ dl_ret' = [code |-> 200, download_id |-> t_id[t], remaining |-> t_rem[t]]
    /\ JReturn(t)
    /\ UNCHANGED <<clockVars, rlVars, cdVars, download_progress, w_end, next_id,
                   q_ret, granted, ncalls>>

\* what the tool reports in these runs: a transfer with a known total and
\* its end, and one exception text
JCEvents == {d \in Events : d.total_bytes = 2 /\ d.downloaded_bytes = 2}
JCErrors == {"ERROR: unsupported URL"}

JCNext ==
    \/ \E d \in JobJumps : JCTick(d)
    \/ \E t \in Threads : \E ip \in JobClients : \E url \in Urls : JCBegin(t, ip, url)
    \/ \E t \in Threads : JCScan(t)
    \/ \E t \in Threads : JCDel(t)
    \/ \E t \in Threads : JCCreate(t)
    \/ \E t \in Threads : JCSpawn(t)
    \/ \E j \in JobIds : \E d \in JCEvents : ProgressHook(j, d)
    \/ \E j \in JobIds : \E b \in BaseNames : WorkerComplete(j, b)
    \/ \E j \in JobIds : \E x \in JCErrors : WorkerError(j, x)

SpecJC == JCInit /\ [][JCNext]_vars

\* C10 (as claimed): while a worker's complete/error write is newer than
\* now - max_age, the entry is in the registry and a status query answers
\* with that terminal state.
C10_TerminalUpdateNeverDropped ==
    \A j \in JobIds :
        (w_pc[j] = "done" /\ now - w_end[j] < H) =>
            /\ ProgressResponse(download_progress, j).code = 200
            /\ Terminal(ProgressResponse(download_progress, j).body)

\* ------------------------------------------------------------------------
\* GET /progress/<download_id> run by request threads beside the submits
\* and the workers: the membership test of line 386 and the subscript of
\* line 387 are two steps, and a del of a sweep may fall between them.

JQInit == AllInit

\* line 386: if download_id in download_progress; line 388: the 404 answer
ProgressTest(t, j) ==
    /\ t_pc[t] = "idle"
    /\ IF Present(download_progress, j)
       THEN /\ t_pc' = [t_pc EXCEPT ![t] = "read"]
            /\ t_id' = [t_id EXCEPT ![t] = j]
            /\ UNCHANGED q_ret
       ELSE /\ q_ret' = [code |-> 404, id |-> j, body |-> Absent]
            /\ UNCHANGED <<t_pc, t_id>>
    /\ UNCHANGED <<clockVars, rlVars, cdVars, download_progress, w_pc, w_end,
                   next_id, dl_ret, t_now, t_clean, t_rem, granted, ncalls, t_todo>>

\* line 387: jsonify(download_progress[download_id]); the subscript of a key
\* that is gone raises KeyError, which the server answers with 500
ProgressRead(t) ==
    /\ t_pc[t] = "read"
    /\ q_ret' = IF Present(download_progress, t_id[t])
                THEN [code |-> 200, id |-> t_id[t], body |-> download_progress[t_id[t]]]
                ELSE [code |-> 500, id |-> t_id[t], body |-> Absent]
    /\ JReturn(t)
    /\ UNCHANGED <<clockVars, rlVars, cdVars, download_progress, w_pc, w_end,
                   next_id, dl_ret, granted, ncalls>>

\* the request threads that serve status queries here; two queries do not
\* act on each other, so one reader beside the other threads shows every
\* interleaving of a query with the writes and the sweeps
QueryThreads == {"t1"}

JQNext ==
    \/ JCNext
    \/ \E t \in QueryThreads : \E j \in JobIds : ProgressTest(t, j)
    \/ \E t \in QueryThreads : ProgressRead(t)

SpecJQ == JQInit /\ [][JQNext]_vars

\* C11 (as claimed): whatever the workers and the sweeps do meanwhile, a
\* status query is answered with the entry of the job (200) or with
\* not-found (404), never with the failure of an unhandled exception.
C11_QueryNeverRaises ==
    q_ret.code \in {0, 200, 404}

\* ------------------------------------------------------------------------
\* Claims about the worker's writes, requests handled one at a time

\* C12 (as claimed): a job whose tool raised is answered with status error
\* and a non-empty error message that is not the raw text of the exception,
\* and two jobs that differ only in the raw text raised are answered with
\* the same error message.
C12_ErrorMessageSanitized ==
    \A j, k \in JobIds :
        LET rj == ProgressResponse(download_progress, j)
            rk == ProgressResponse(download_progress, k)
        IN  (rj.code = 200 /\ rj.body.status = "error") =>
                /\ rj.body.error # ""
                /\ rj.body.error \notin RawErrors
                /\ (rk.code = 200 /\ rk.body.status = "error") =>
                       rk.body.error = rj.body.error

\* ------------------------------------------------------------------------
\* POST /download requests alone, one at a time, enough of them to use up
\* the quota of a client; the workers they start stay silent

MaxTicksSub == 1        \* clock advances in one behaviour
MaxSubmitsSub == 12     \* POST /download requests in one behaviour

SubJumps == {1, H + 1}

SubInit == AllInit

SubTick(d) ==
    /\ nticks < MaxTicksSub
    /\ Advance(d)
    /\ UNCHANGED <<rlVars, rcVars, cdVars, jobVars>>

SubDownload(ip, url) == ncalls < MaxSubmitsSub /\ DownloadRequest(ip, url)

SubNext ==
    \/ \E d \in SubJumps : SubTick(d)
    \/ \E ip \in JobClients : \E url \in Urls : SubDownload(ip, url)

SpecSub == SubInit /\ [][SubNext]_vars

\* C13: a submit without a url (empty, or blank once stripped), or from a
\* client with DOWNLOAD_RATE_LIMIT admits inside the window, is answered 400
\* or 429, and leaves the registry, the workers and the id counter as they
\* were: no entry is created, swept or changed and no worker is started.
C13_RejectedSubmitLeavesRegistry ==
    [][\A ip \in JobClients : \A url \in Urls :
        (/\ SubDownload(ip, url)
         /\ \/ url \in {"", " "}
            \/ Len(CleanOld(download_requests[ip], now)) >= DOWNLOAD_RATE_LIMIT) =>
            /\ dl_ret'.code \in {400, 429}
            /\ download_progress' = download_progress
            /\ w_pc' = w_pc
            /\ next_id' = next_id
      ]_vars

\* A rate-limited submit has left in place an entry that an accepted submit
\* would have swept.
C13_Witness ==
    /\ dl_ret.code = 429
    /\ \E j \in JobIds :
           /\ Present(download_progress, j)
           /\ Expired(download_progress[j], now, H)
           /\ w_pc[j] = "started"

\* ------------------------------------------------------------------------
\* Claims about a job between its submit and its worker's first write

\* C14 (as claimed): for as long as the worker of an accepted job has
\* written nothing, a status query for the job is answered with status
\* starting and percent 0.
C14_StartingUntilFirstReport ==
    \A j \in JobIds :
        w_pc[j] = "started" =>
            LET r == ProgressResponse(download_progress, j)
            IN  r.code = 200 /\ r.body.status = "starting" /\ r.body.percent = 0

\* C14 (amended): for as long as the worker of an accepted job has written
\* nothing, a status query is answered with status starting and percent 0,
\* or with not-found once a sweep has removed the entry, which it does only
\* when the entry is older than max_age; and download() writes the
\* starting entry (its thread reaches the spawn step by that write) before
\* it starts the worker thread.
C14_StartingUntilFirstReportOrSwept ==
    /\ [](\A j \in JobIds :
            w_pc[j] = "started" =>
                LET r == ProgressResponse(download_progress, j)
                IN  \/ r.code = 200 /\ r.body.status = "starting"
                                    /\ r.body.percent = 0
                    \/ r.code = 404)
    /\ [][\A j \in JobIds :
            /\ (w_pc[j] = "started" /\ w_pc'[j] = "started"
                    /\ Present(download_progress, j)
                    /\ ~Present(download_progress', j)) =>
                   Expired(download_progress[j], now, H)
            /\ (w_pc[j] = "unborn" /\ w_pc'[j] # "unborn") =>
                   /\ w_pc'[j] = "started"
                   /\ \E t \in Threads : t_pc[t] = "spawn" /\ t_id[t] = j
            /\ \A t \in Threads :
                   (t_pc[t] # "spawn" /\ t_pc'[t] = "spawn" /\ t_id'[t] = j) =>
                       /\ download_progress'[j] = StartingEntry(now)
                       /\ w_pc[j] = "unborn"
         ]_vars

\* Time has passed since the submit of job j returned, its worker has
\* written nothing, and the entry of j is the starting entry.
C14_Witness ==
    \E j \in JobIds :
        /\ dl_ret.code = 200 /\ dl_ret.download_id = j
        /\ w_pc[j] = "started"
        /\ Present(download_progress, j)
        /\ download_progress[j].status = "starting"
        /\ download_progress[j].timestamp < now

\* ------------------------------------------------------------------------
\* Claims about the writes of a worker and its hook

\* C15 (as claimed): while the id of a started worker is no key of the
\* registry (a sweep has removed its entry), no step creates an entry for
\* that id: the worker's hook and terminal writes are dropped.
C15_UpdateOfAbsentJobIsNoOp ==
    [][\A j \in JobIds :
        (WorkerAlive(j) /\ ~Present(download_progress, j)) =>
            ~Present(download_progress', j)
      ]_vars

\* C16 (as claimed): from one state of an entry to the next its status
\* does not move backward on starting, downloading, processing, complete
\* (error from anywhere), and an entry with status processing has percent
\* 100.
C16_StatusOnlyMovesForward ==
    [][LET StatusRank(st) ==
               CASE st = "starting" -> 0
                 [] st = "downloading" -> 1
                 [] st = "processing" -> 2
                 [] OTHER -> 3
       IN  \A j \in JobIds :
               (Present(download_progress, j) /\ Present(download_progress', j)) =>
                   /\ StatusRank(download_progress'[j].status)
                          >= StatusRank(download_progress[j].status)
                   /\ download_progress'[j].status = "processing" =>
                          download_progress'[j].percent = 1000
      ]_vars

\* ------------------------------------------------------------------------
\* Status queries in steps beside the workers; submits, with their sweep,
\* are handled in one step

QWNext ==
    \/ JobTick(H + 1)
    \/ \E ip \in JobClients : \E url \in Urls : Download(ip, url)
    \/ \E j \in JobIds : \E d \in JCEvents : ProgressHook(j, d)
    \/ \E j \in JobIds : \E b \in BaseNames : WorkerComplete(j, b)
    \/ \E j \in JobIds : \E x \in JCErrors : WorkerError(j, x)
    \/ \E t \in QueryThreads : \E j \in JobIds : ProgressTest(t, j)
    \/ \E t \in QueryThreads : ProgressRead(t)

SpecQW == JobInit /\ [][QWNext]_vars

\* C17: in every entry of the registry, and in every body a status query
\* has answered with beside the writes of the workers, the filename is
\* there exactly when the status is complete, the error text exactly when
\* the status is error, and speed and eta only when the status is
\* downloading.
C17_FieldsDeterminedByStatus ==
    LET Determined(e) ==
            /\ (e.filename # "") <=> (e.status = "complete")
            /\ (e.error # "") <=> (e.status = "error")
            /\ (e.speed # -1 \/ e.eta # -1) => (e.status = "downloading")
    IN  /\ \A j \in JobIds : Determined(download_progress[j])
        /\ q_ret.code = 200 => Determined(q_ret.body)

\* A query has answered with the downloading entry of a job whose worker
\* has since written complete.
C17_Witness ==
    /\ q_ret.code = 200
    /\ q_ret.body.status = "downloading" /\ q_ret.body.speed # -1
    /\ download_progress[q_ret.id].status = "complete"
    /\ download_progress[q_ret.id].filename # ""

\* C18 (as claimed): the percent of every entry written from a progress
\* event lies between 0 and 100 (0 and 1000 tenths of a percent).
C18_PercentWithinRange ==
    \A j \in JobIds :
        download_progress[j].status = "downloading" =>
            /\ download_progress[j].percent >= 0
            /\ download_progress[j].percent <= 1000

\* ------------------------------------------------------------------------
\* The workers under fair scheduling: a started download_video thread gets
\* to run, and the call of the tool returns or raises

\* download_video of job j leaves extract_info, by return or by exception
WorkerEnds(j) ==
    \/ \E b \in BaseNames : WorkerComplete(j, b)
    \/ \E x \in JCErrors : WorkerError(j, x)

WorkNext ==
    \/ \E d \in JobJumps : JobTick(d)
    \/ \E ip \in JobClients : \E url \in Urls : Download(ip, url)
    \/ \E j \in JobIds : \E d \in JCEvents : ProgressHook(j, d)
    \/ \E j \in JobIds : WorkerEnds(j)

SpecJobFair ==
    JobInit /\ [][WorkNext]_vars /\ \A j \in JobIds : WF_vars(WorkerEnds(j))

\* C19: the worker of every admitted job ends, and the step by which it
\* ends writes status complete or error for its job id; a worker that has
\* ended stays ended, so each job gets one attempt.
C19_AdmittedJobTerminates ==
    /\ \A j \in JobIds : WorkerAlive(j) ~> (w_pc[j] = "done")
    /\ [][\A j \in JobIds :
            /\ (w_pc[j] # "done" /\ w_pc'[j] = "done") =>
                   /\ WorkerAlive(j)
                   /\ Terminal(download_progress'[j])
                   /\ download_progress'[j].timestamp = now
            /\ w_pc[j] = "done" => w_pc'[j] = "done"
         ]_vars

\* Both workers have ended, one with complete and one with error.
C19_Witness ==
    \E j, k \in JobIds :
        /\ w_pc[j] = "done" /\ w_pc[k] = "done"
        /\ download_progress[j].status = "complete"
        /\ download_progress[k].status = "error"

\* ------------------------------------------------------------------------
\* The order of the rate limit and the url check in download()

\* C20: a submit without a url from a client that has quota left is
\* answered 400 and creates no job, yet the instant of the request is added
\* to the list of the client; and when the list of a client that has never
\* had a job created (all its admits were submits without a url) holds
\* DOWNLOAD_RATE_LIMIT instants of the window, its submit with a url is
\* answered 429 and creates no job.
C20_InvalidSubmitConsumesQuota ==
    [][\A ip \in JobClients :
        LET cleaned == CleanOld(download_requests[ip], now) IN
        /\ \A url \in {"", " "} :
               (SubDownload(ip, url) /\ Len(cleaned) < DOWNLOAD_RATE_LIMIT) =>
                   /\ dl_ret'.code = 400
                   /\ next_id' = next_id
                   /\ download_progress' = download_progress
                   /\ download_requests'[ip] = Append(cleaned, now)
        /\ (SubDownload(ip, "u") /\ next_id = 1
                /\ Len(cleaned) = DOWNLOAD_RATE_LIMIT) =>
               /\ dl_ret'.code = 429
               /\ next_id' = 1
               /\ download_progress' = download_progress
      ]_vars

\* Ten submits without a url have used up the quota of the client and the
\* eleventh submit has been answered 429; no job has ever been created.
C20_Witness ==
    /\ dl_ret.code = 429
    /\ ncalls = DOWNLOAD_RATE_LIMIT + 1
    /\ next_id = 1
    /\ \E ip \in JobClients : Len(download_requests[ip]) = DOWNLOAD_RATE_LIMIT

\* ------------------------------------------------------------------------
\* update_ytdlp in its steps, one request at a time: time passes while pip
\* runs, between the stamp of line 458 and the answer

MaxTicksCS == 2     \* clock advances in one behaviour

CSJumps == {1, CD - 1}

CSInit == AllInit

CSTick(d) ==
    /\ nticks < MaxTicksCS
    /\ Advance(d)
    /\ UNCHANGED <<rlVars, rcVars, cdVars, jobVars>>

\* a request begins when no other request is being served
CSBegin(t) == (\A u \in Threads : t_pc[u] = "idle") /\ CCBegin(t)

CSNext ==
    \/ \E d \in CSJumps : CSTick(d)
    \/ \E t \in Threads : CSBegin(t)
    \/ \E t \in Threads : CCGate(t)
    \/ \E t \in Threads : CCStamp(t)
    \/ \E t \in Threads : \E o \in PipOutcomes : CCPipEnds(t, o)

SpecCS == CSInit /\ [][CSNext]_vars

\* C21: while pip runs for a request, last_update_time is already the
\* instant of that request; the end of pip, whatever its outcome, leaves
\* last_update_time as it is; a request whose instant is less than
\* UPDATE_COOLDOWN after last_update_time is answered 429, also when the
\* update before it failed, and leaves last_update_time as it is; any other
\* request goes on to the stamp.
C21_StampedBeforePipNeverRolledBack ==
    /\ [](\A t \in Threads : t_pc[t] = "pip" => last_update_time = t_now[t])
    /\ [][\A t \in Threads :
            /\ (t_pc[t] = "pip" /\ t_pc'[t] = "idle") =>
                   /\ last_update_time' = last_update_time
                   /\ cd_ret'.code \in {200, 500}
            /\ (t_pc[t] = "gate" /\ t_pc'[t] # "gate") =>
                   IF t_now[t] - last_update_time < CD
                   THEN /\ cd_ret'.code = 429
                        /\ t_pc'[t] = "idle"
                        /\ last_update_time' = last_update_time
                   ELSE /\ t_pc'[t] = "stamp"
                        /\ cd_ret' = cd_ret
         ]_vars

\* The first update has failed (500) after its pip had run for a while, its
\* stamp is in place, and a second request, made less than UPDATE_COOLDOWN
\* after the stamp, stands at the gate.
C21_Witness ==
    /\ ncalls = 2
    /\ cd_ret.code = 500
    /\ last_update_time = Boot
    /\ \E t \in Threads :
           /\ t_pc[t] = "gate"
           /\ t_now[t] > last_update_time
           /\ t_now[t] - last_update_time < CD

====
